---- MODULE Spec2Model ----
(***************************************************************************)
(* Model of src/room_tools.py: the meeting-room catalog (room_data.json),  *)
(* the booking ledger (booking_records.json) and the operations on them.   *)
(*                                                                         *)
(* Two specifications share the state:                                     *)
(*   Spec      one caller; every action is one whole call of a function,   *)
(*             all calls within one tick of the clock                      *)
(*   ConcSpec  NumProcs callers; every action is one file-system step of   *)
(*             a call (exists test, read, write), interleaved freely       *)
(***************************************************************************)
EXTENDS Integers, Sequences, FiniteSets, TLC

----------------------------------------------------------------------------
(* Bounds of the model *)

\* successful bookings (uuid4 draws) in one run
MaxBookings == 2
\* last value of the wall clock, in ticks
MaxClock == 2
\* concurrent callers of ConcSpec
NumProcs == 2

\* clock ticks in one second: created_at keeps whole seconds only
TicksPerSecond == 2

----------------------------------------------------------------------------
(* Time strings "2023-10-DD HH:MM" are the tuple <<DD, HH, MM>> of their     *)
(* fields; strptime turns one into minutes since 2023-10-01 00:00.         *)

T(h, m) == <<1, h, m>>

strptime(t) == ((t[1] - 1) * 24 + t[2]) * 60 + t[3]

\* datetime.now().strftime("%Y-%m-%d %H:%M:%S"): the clock cut to whole seconds
strftime(ticks) == ticks \div TicksPerSecond

NoFile == "NoFile"

----------------------------------------------------------------------------
(* The seed catalog of initialize_rooms_data, in dict insertion order *)

Room(id, cap, bks, fac) ==
    [room_id |-> id, capacity |-> cap, bookings |-> bks, facilities |-> fac]

SeedRooms ==
    << Room("R101", 8,
            << <<T(9, 0), T(10, 30)>>, <<T(14, 0), T(15, 0)>> >>,
            <<"Whiteboard", "Projector">>),
       Room("R102", 15,
            << <<T(11, 0), T(12, 30)>> >>,
            <<"Whiteboard", "Video Conference", "Teleconference">>),
       Room("R103", 25,
            << <<T(13, 0), T(16, 0)>> >>,
            <<"Projector", "Video Conference", "Teleconference", "Whiteboard">>),
       Room("R104", 100,
            << <<T(10, 0), T(12, 0)>>, <<T(15, 30), T(17, 0)>> >>,
            <<"Projector", "Video Conference", "Teleconference", "Whiteboard",
              "Sound System">>),
       Room("R105", 4, << >>, <<"Whiteboard">>),
       Room("R106", 200,
            << <<T(9, 30), T(11, 30)>>, <<T(13, 30), T(14, 30)>> >>,
            <<"Projector">>),
       Room("R107", 20,
            << <<T(9, 0), T(17, 0)>> >>,
            <<"Whiteboard", "Projector", "Video Conference">>),
       Room("R108", 30, << >>,
            <<"Whiteboard", "Projector", "Video Conference", "Teleconference">>),
       Room("R109", 6,
            << <<T(10, 0), T(11, 0)>>, <<T(14, 0), T(16, 0)>> >>,
            <<"Whiteboard">>),
       Room("R110", 12,
            << <<T(9, 0), T(10, 0)>>, <<T(11, 0), T(12, 0)>> >>,
            <<"Projector", "Whiteboard">>) >>

----------------------------------------------------------------------------
(* Inputs of the calls *)

\* R101 is free from 10:30 to 11:00, R104 is taken by [10:00, 12:00), R999 is no room
RoomIdInputs == {"R101", "R104", "R999"}
TimeInputs == {T(10, 30), T(11, 0)}
UserInputs == {"alice", "bob"}
\* the callers of ConcSpec may also book R105, which has no interval at all
ConcRoomIdInputs == RoomIdInputs \cup {"R105"}

----------------------------------------------------------------------------
(* Dict helpers: a dict is the sequence of its values in insertion order *)

RoomIds(rooms) == {rooms[i].room_id : i \in 1..Len(rooms)}

RoomOf(rooms, id) == rooms[CHOOSE i \in 1..Len(rooms) : rooms[i].room_id = id]

BookingIds(bookings) == {bookings[i].booking_id : i \in 1..Len(bookings)}

\* bookings[str(booking.booking_id)] = booking
DictSet(bookings, booking) ==
    IF booking.booking_id \in BookingIds(bookings)
    THEN [i \in 1..Len(bookings) |->
            IF bookings[i].booking_id = booking.booking_id
            THEN booking ELSE bookings[i]]
    ELSE Append(bookings, booking)

----------------------------------------------------------------------------
(* The conflict test of get_available_rooms and book_room *)

\* the test with strict comparisons: touching intervals conflict
TimeConflict_strict(start_dt, end_dt, booking_start, booking_end) ==
    ~(end_dt < booking_start \/ start_dt > booking_end)

TimeConflict(start_dt, end_dt, booking_start, booking_end) ==
    ~(end_dt <= booking_start \/ start_dt >= booking_end)

\* the loop over one room's bookings: TRUE when some booking conflicts
HasConflict(bks, start_time, end_time) ==
    \E i \in 1..Len(bks) :
        TimeConflict(strptime(start_time), strptime(end_time),
                     strptime(bks[i][1]), strptime(bks[i][2]))

RECURSIVE AvailableFrom(_, _, _, _)
AvailableFrom(rooms, i, start_time, end_time) ==
    IF i > Len(rooms) THEN << >>
    ELSE IF HasConflict(rooms[i].bookings, start_time, end_time)
         THEN AvailableFrom(rooms, i + 1, start_time, end_time)
         ELSE <<rooms[i].room_id>> \o AvailableFrom(rooms, i + 1, start_time, end_time)

\* the list get_available_rooms builds from a catalog of Room objects
AvailableRooms(rooms, start_time, end_time) ==
    AvailableFrom(rooms, 1, start_time, end_time)

----------------------------------------------------------------------------
(* Conditions handed to check: predicates on one Booking *)

CondHolds(c, booking) ==
    CASE c = "room_id == R101" -> booking.room_id = "R101"
      [] c = "user_name == alice" -> booking.user_name = "alice"
      [] OTHER -> FALSE

ConditionInputs ==
    { << >>, <<"room_id == R101">>, <<"user_name == alice">>,
      <<"room_id == R101", "user_name == alice">> }

----------------------------------------------------------------------------
(* The file functions, as functions of the file content *)

\* a seed whose second R101 interval starts inside the first one
initialize_rooms_data_overlapping ==
    [SeedRooms EXCEPT ![1].bookings[2] = <<T(10, 0), T(15, 0)>>]

\* what initialize_rooms_data writes and returns: a dict of plain dicts
initialize_rooms_data == SeedRooms

\* what initialize_bookings_file writes
initialize_bookings_file == << >>

\* load_rooms_data: plain dicts on first access, Room objects afterwards
load_rooms_data(file) ==
    IF file = NoFile
    THEN [shape |-> "dict", rooms |-> initialize_rooms_data]
    ELSE [shape |-> "Room", rooms |-> file]

\* ROOMS_FILE after load_rooms_data
rooms_file_after_load(file) ==
    IF file = NoFile THEN initialize_rooms_data ELSE file

load_bookings(file) ==
    IF file = NoFile THEN << >> ELSE file

\* BOOKINGS_FILE after load_bookings
bookings_file_after_load(file) ==
    IF file = NoFile THEN initialize_bookings_file ELSE file

\* save_booking that dumps the new record alone, without the loaded dict
save_booking_overwrite(file, booking) == <<booking>>

\* BOOKINGS_FILE after save_booking
save_booking(file, booking) ==
    DictSet(load_bookings(file), booking)

Booking(booking_id, room_id, user_name, start_time, end_time, created_at) ==
    [booking_id |-> booking_id, room_id |-> room_id, user_name |-> user_name,
     start_time |-> start_time, end_time |-> end_time, created_at |-> created_at]

----------------------------------------------------------------------------
(* State *)

VARIABLES
    roomsFile,      \* content of ROOMS_FILE, or NoFile
    bookingsFile,   \* content of BOOKINGS_FILE, or NoFile
    clock,          \* the wall clock datetime.now() reads, in ticks
    uuids,          \* uuid4 draws so far; the next draw is uuids + 1
    ret,            \* Spec: the last call, its arguments and what it returned
    pc,             \* ConcSpec: where each caller stands in its call
    loc             \* ConcSpec: each caller's arguments and local variables

vars == <<roomsFile, bookingsFile, clock, uuids, ret, pc, loc>>

Procs == 1..NumProcs

NoTime == <<0, 0, 0>>

Call(op, room_id, start_time, end_time, user_name, conditions, kind, out) ==
    [op |-> op, room_id |-> room_id, start_time |-> start_time,
     end_time |-> end_time, user_name |-> user_name,
     conditions |-> conditions, kind |-> kind, out |-> out]

NoCall == Call("none", "", NoTime, NoTime, "", << >>, "none", << >>)

NoLocals ==
    [op |-> "none", room_id |-> "", start_time |-> NoTime, end_time |-> NoTime,
     user_name |-> "", conditions |-> << >>,
     rooms |-> << >>, rooms_shape |-> "none",
     booking |-> << >>, bookings |-> << >>, kind |-> "none", out |-> << >>]

\* both files written by the __main__ block, or both missing (fresh checkout)
Init ==
    /\ \/ roomsFile = initialize_rooms_data /\ bookingsFile = initialize_bookings_file
       \/ roomsFile = NoFile /\ bookingsFile = NoFile
    /\ clock = 0
    /\ uuids = 0
    /\ ret = NoCall
    /\ pc = [p \in Procs |-> "idle"]
    /\ loc = [p \in Procs |-> NoLocals]

----------------------------------------------------------------------------
(* Spec: whole calls, one after the other *)

\* book_room without the test "room_id in rooms"
book_room_kind_no_lookup(rooms, room_id, start_time, end_time) ==
    IF rooms.shape = "dict" /\ room_id \in RoomIds(rooms.rooms) THEN "AttributeError"
    ELSE IF /\ room_id \in RoomIds(rooms.rooms)
            /\ HasConflict(RoomOf(rooms.rooms, room_id).bookings, start_time, end_time)
         THEN "Conflict"
         ELSE "Booked"

\* the branch book_room takes on the loaded catalog
book_room_kind(rooms, room_id, start_time, end_time) ==
    IF room_id \notin RoomIds(rooms.rooms) THEN "NotFound"
    ELSE IF rooms.shape = "dict" THEN "AttributeError"
    ELSE IF HasConflict(RoomOf(rooms.rooms, room_id).bookings, start_time, end_time)
         THEN "Conflict"
         ELSE "Booked"

\* book_room saving the record before it looks for a conflict
book_room_saves_early(kind) == kind \in {"Booked", "Conflict"}

\* the branches of book_room that reach save_booking
book_room_saves(kind) == kind = "Booked"

book_room(room_id, start_time, end_time, user_name) ==
    LET rooms == load_rooms_data(roomsFile)
        kind == book_room_kind(rooms, room_id, start_time, end_time)
        booking_id == uuids + 1
        booking == Booking(booking_id, room_id, user_name, start_time, end_time,
                           strftime(clock))
    IN /\ book_room_saves(kind) => uuids < MaxBookings
       /\ roomsFile' = rooms_file_after_load(roomsFile)
       /\ IF book_room_saves(kind)
          THEN /\ bookingsFile' = save_booking(bookingsFile, booking)
               /\ uuids' = booking_id
          ELSE UNCHANGED <<bookingsFile, uuids>>
       /\ ret' = Call("book_room", room_id, start_time, end_time, user_name, << >>,
                      kind, IF kind = "Booked" THEN <<booking_id>> ELSE << >>)
       /\ UNCHANGED <<clock, pc, loc>>

get_available_rooms(start_time, end_time) ==
    LET rooms == load_rooms_data(roomsFile)
        raises == rooms.shape = "dict" /\ Len(rooms.rooms) > 0
    IN /\ roomsFile' = rooms_file_after_load(roomsFile)
       /\ ret' = Call("get_available_rooms", "", start_time, end_time, "", << >>,
                      IF raises THEN "AttributeError" ELSE "List",
                      IF raises THEN << >>
                      ELSE AvailableRooms(rooms.rooms, start_time, end_time))
       /\ UNCHANGED <<bookingsFile, clock, uuids, pc, loc>>

\* a > b on two time strings: Python compares them character by character,
\* which on the fixed-width format is field by field
str_gt(a, b) ==
    \/ a[1] > b[1]
    \/ a[1] = b[1] /\ a[2] > b[2]
    \/ a[1] = b[1] /\ a[2] = b[2] /\ a[3] > b[3]

\* the filter with >= : a booking starting at current_time is kept
future_bookings_inclusive(bks, current_time) ==
    LET Keep(b) == str_gt(b[1], current_time) \/ b[1] = current_time
    IN SelectSeq(bks, Keep)

\* [b for b in info.bookings if b[0] > current_time]
future_bookings(bks, current_time) ==
    LET Keep(b) == str_gt(b[1], current_time)
    IN SelectSeq(bks, Keep)

get_all_rooms_status(current_time) ==
    LET rooms == load_rooms_data(roomsFile)
        raises == rooms.shape = "dict" /\ Len(rooms.rooms) > 0
    IN /\ roomsFile' = rooms_file_after_load(roomsFile)
       /\ ret' = Call("get_all_rooms_status", "", current_time, NoTime, "", << >>,
                      IF raises THEN "AttributeError" ELSE "Status",
                      IF raises THEN << >>
                      ELSE [i \in 1..Len(rooms.rooms) |->
                              [room_id |-> rooms.rooms[i].room_id,
                               bookings |-> future_bookings(rooms.rooms[i].bookings,
                                                            current_time)]])
       /\ UNCHANGED <<bookingsFile, clock, uuids, pc, loc>>

\* the room's dict without its "bookings" key
RoomInfo(room) ==
    [room_id |-> room.room_id, capacity |-> room.capacity,
     facilities |-> room.facilities]

get_room_info(room_id) ==
    LET rooms == load_rooms_data(roomsFile)
        kind == IF room_id \notin RoomIds(rooms.rooms) THEN "NotFound"
                ELSE IF rooms.shape = "dict" THEN "AttributeError"
                ELSE "Info"
    IN /\ roomsFile' = rooms_file_after_load(roomsFile)
       /\ ret' = Call("get_room_info", room_id, NoTime, NoTime, "", << >>, kind,
                      IF kind = "Info"
                      THEN <<RoomInfo(RoomOf(rooms.rooms, room_id))>> ELSE << >>)
       /\ UNCHANGED <<bookingsFile, clock, uuids, pc, loc>>

\* check with any(results) in place of all(results)
check_result_any(bookings, conditions) ==
    IF \E i \in 1..Len(bookings) :
          \E j \in 1..Len(conditions) : CondHolds(conditions[j], bookings[i])
    THEN 1 ELSE 0

\* the value check returns on the loaded ledger
check_result(bookings, conditions) ==
    IF \E i \in 1..Len(bookings) :
          \A j \in 1..Len(conditions) : CondHolds(conditions[j], bookings[i])
    THEN 1 ELSE 0

check(conditions) ==
    /\ bookingsFile' = bookings_file_after_load(bookingsFile)
    /\ roomsFile' = rooms_file_after_load(roomsFile)
    /\ ret' = Call("check", "", NoTime, NoTime, "", conditions, "Int",
                   <<check_result(load_bookings(bookingsFile), conditions)>>)
    /\ UNCHANGED <<clock, uuids, pc, loc>>

\* time passes
Tick ==
    /\ clock < MaxClock
    /\ clock' = clock + 1
    /\ UNCHANGED <<roomsFile, bookingsFile, uuids, ret, pc, loc>>

Next ==
    \/ \E room_id \in RoomIdInputs, start_time \in TimeInputs,
          end_time \in TimeInputs, user_name \in UserInputs :
          book_room(room_id, start_time, end_time, user_name)
    \/ \E start_time \in TimeInputs, end_time \in TimeInputs :
          get_available_rooms(start_time, end_time)
    \/ \E room_id \in RoomIdInputs : get_room_info(room_id)
    \/ \E current_time \in TimeInputs : get_all_rooms_status(current_time)
    \/ \E conditions \in ConditionInputs : check(conditions)

Spec == Init /\ [][Next]_vars

----------------------------------------------------------------------------
(* ConcSpec: NumProcs callers, each making one call of book_room or check.  *)
(* A step is one access to shared state: the os.path.exists test, the read *)
(* of a file, the write of a whole file, the draw of the uuid and the      *)
(* clock. Each file access is taken as atomic.                             *)

\* caller p moves to the program point `to` with the locals `l`
Goto(p, to, l) ==
    /\ pc' = [pc EXCEPT ![p] = to]
    /\ loc' = [loc EXCEPT ![p] = l]

\* caller p returns: its locals go, its arguments and result stay on record
Return(p, kind, out) ==
    Goto(p, "done", [loc[p] EXCEPT !.rooms = << >>, !.rooms_shape = "none",
                                   !.bookings = << >>,
                                   !.kind = kind, !.out = out])

call_book_room(p, room_id, start_time, end_time, user_name) ==
    /\ pc[p] = "idle"
    /\ Goto(p, "rooms_exists",
            [NoLocals EXCEPT !.op = "book_room", !.room_id = room_id,
                             !.start_time = start_time, !.end_time = end_time,
                             !.user_name = user_name])
    /\ UNCHANGED <<roomsFile, bookingsFile, clock, uuids, ret>>

call_check(p, conditions) ==
    /\ pc[p] = "idle"
    /\ Goto(p, "bookings_exists",
            [NoLocals EXCEPT !.op = "check", !.conditions = conditions])
    /\ UNCHANGED <<roomsFile, bookingsFile, clock, uuids, ret>>

\* load_rooms_data: os.path.exists(ROOMS_FILE)
rooms_exists(p) ==
    /\ pc[p] = "rooms_exists"
    /\ Goto(p, IF roomsFile = NoFile THEN "rooms_init" ELSE "rooms_read", loc[p])
    /\ UNCHANGED <<roomsFile, bookingsFile, clock, uuids, ret>>

\* where a call goes on once load_rooms_data has returned
AfterRooms(op) == IF op = "book_room" THEN "book_room_check" ELSE "check_loop"

\* load_rooms_data: return initialize_rooms_data()
rooms_init(p) ==
    /\ pc[p] = "rooms_init"
    /\ roomsFile' = initialize_rooms_data
    /\ Goto(p, AfterRooms(loc[p].op),
            [loc[p] EXCEPT !.rooms = initialize_rooms_data, !.rooms_shape = "dict"])
    /\ UNCHANGED <<bookingsFile, clock, uuids, ret>>

\* load_rooms_data: json.load and the conversion to Room objects
rooms_read(p) ==
    /\ pc[p] = "rooms_read"
    /\ Goto(p, AfterRooms(loc[p].op),
            [loc[p] EXCEPT !.rooms = roomsFile, !.rooms_shape = "Room"])
    /\ UNCHANGED <<roomsFile, bookingsFile, clock, uuids, ret>>

\* book_room: the lookup of the room and the loop over its bookings
book_room_check(p) ==
    LET kind == book_room_kind([shape |-> loc[p].rooms_shape, rooms |-> loc[p].rooms],
                               loc[p].room_id, loc[p].start_time, loc[p].end_time)
    IN /\ pc[p] = "book_room_check"
       /\ IF book_room_saves(kind)
          THEN Goto(p, "book_room_create", loc[p])
          ELSE Return(p, kind, << >>)
       /\ UNCHANGED <<roomsFile, bookingsFile, clock, uuids, ret>>

\* book_room: uuid4(), datetime.now() and the Booking record
book_room_create(p) ==
    /\ pc[p] = "book_room_create"
    /\ uuids < MaxBookings
    /\ uuids' = uuids + 1
    /\ Goto(p, "bookings_exists",
            [loc[p] EXCEPT !.booking =
                Booking(uuids + 1, loc[p].room_id, loc[p].user_name,
                        loc[p].start_time, loc[p].end_time, strftime(clock))])
    /\ UNCHANGED <<roomsFile, bookingsFile, clock, ret>>

\* load_bookings: os.path.exists(BOOKINGS_FILE)
bookings_exists(p) ==
    /\ pc[p] = "bookings_exists"
    /\ Goto(p, IF bookingsFile = NoFile THEN "bookings_init" ELSE "bookings_read",
            loc[p])
    /\ UNCHANGED <<roomsFile, bookingsFile, clock, uuids, ret>>

\* where a call goes on once load_bookings has returned
AfterBookings(op) == IF op = "book_room" THEN "save_write" ELSE "rooms_exists"

\* load_bookings: initialize_bookings_file() and return {}
bookings_init(p) ==
    /\ pc[p] = "bookings_init"
    /\ bookingsFile' = initialize_bookings_file
    /\ Goto(p, AfterBookings(loc[p].op), [loc[p] EXCEPT !.bookings = << >>])
    /\ UNCHANGED <<roomsFile, clock, uuids, ret>>

\* load_bookings: json.load and the conversion to Booking objects
bookings_read(p) ==
    /\ pc[p] = "bookings_read"
    /\ Goto(p, AfterBookings(loc[p].op), [loc[p] EXCEPT !.bookings = bookingsFile])
    /\ UNCHANGED <<roomsFile, bookingsFile, clock, uuids, ret>>

\* save_booking: the new entry joins the loaded dict, the dict replaces the
\* file, and book_room returns the booking id
save_write(p) ==
    /\ pc[p] = "save_write"
    /\ bookingsFile' = DictSet(loc[p].bookings, loc[p].booking)
    /\ Return(p, "Booked", <<loc[p].booking.booking_id>>)
    /\ UNCHANGED <<roomsFile, clock, uuids, ret>>

\* check: the loop over the loaded bookings
check_loop(p) ==
    /\ pc[p] = "check_loop"
    /\ Return(p, "Int", <<check_result(loc[p].bookings, loc[p].conditions)>>)
    /\ UNCHANGED <<roomsFile, bookingsFile, clock, uuids, ret>>

ConcNext ==
    \/ \E p \in Procs :
          \/ \E room_id \in ConcRoomIdInputs, start_time \in TimeInputs,
                end_time \in TimeInputs, user_name \in UserInputs :
                call_book_room(p, room_id, start_time, end_time, user_name)
          \/ \E conditions \in ConditionInputs : call_check(p, conditions)
          \/ rooms_exists(p)
          \/ rooms_init(p)
          \/ rooms_read(p)
          \/ book_room_check(p)
          \/ book_room_create(p)
          \/ bookings_exists(p)
          \/ bookings_init(p)
          \/ bookings_read(p)
          \/ save_write(p)
          \/ check_loop(p)
    \/ Tick

ConcSpec == Init /\ [][ConcNext]_vars

----------------------------------------------------------------------------
(* Vocabulary of the properties *)

Range(seq) == {seq[i] : i \in 1..Len(seq)}

\* t1 is earlier than t2: the order of the time strings, field by field
TimeLess(t1, t2) ==
    \/ t1[1] < t2[1]
    \/ t1[1] = t2[1] /\ t1[2] < t2[2]
    \/ t1[1] = t2[1] /\ t1[2] = t2[2] /\ t1[3] < t2[3]

\* the half-open windows [s1, e1) and [s2, e2) overlap
Overlaps(s1, e1, s2, e2) == TimeLess(s1, e2) /\ TimeLess(s2, e1)

\* some interval stored in the list overlaps the window [s, e)
StoredOverlap(bks, s, e) ==
    \E k \in 1..Len(bks) : Overlaps(s, e, bks[k][1], bks[k][2])

\* every full hour of the seed's day, and the times the calls use
GridTimes == {T(h, 0) : h \in 9..17} \cup TimeInputs

LedgerEntries == IF bookingsFile = NoFile THEN {} ELSE Range(bookingsFile)

----------------------------------------------------------------------------
(* Properties of Spec *)

\* C1: in every state, no room of the stored catalog holds two distinct
\* intervals [s1,e1) and [s2,e2) with s1 < e2 and s2 < e1.
C1_CatalogNonOverlapping ==
    roomsFile # NoFile =>
        \A r \in 1..Len(roomsFile) :
            \A i, j \in 1..Len(roomsFile[r].bookings) :
                i # j => ~Overlaps(roomsFile[r].bookings[i][1],
                                   roomsFile[r].bookings[i][2],
                                   roomsFile[r].bookings[j][1],
                                   roomsFile[r].bookings[j][2])

\* two bookings were made and a third call has just been refused
C1_Witness ==
    /\ ret.op = "book_room" /\ ret.kind = "Conflict"
    /\ Cardinality(LedgerEntries) = 2
    /\ roomsFile # NoFile

\* C3: when book_room has just returned a booking id for room R and a window
\* [s,e) with s < e (R was free for it), get_available_rooms(s,e) evaluated on
\* the state the call leaves does not contain R.
C3_BookedRoomLeavesAvailable ==
    ( /\ ret.op = "book_room" /\ ret.kind = "Booked"
      /\ TimeLess(ret.start_time, ret.end_time) )
    => ret.room_id \notin
           Range(AvailableRooms(load_rooms_data(roomsFile).rooms,
                                ret.start_time, ret.end_time))

\* C4: a book_room call for a room and window for which an earlier call has
\* already succeeded returns the conflict result (and so adds no entry).
C4_RepeatIsConflict ==
    \A b \in LedgerEntries :
        ( /\ ret.op = "book_room"
          /\ TimeLess(ret.start_time, ret.end_time)
          /\ b.room_id = ret.room_id
          /\ b.start_time = ret.start_time /\ b.end_time = ret.end_time
          /\ ret.out # <<b.booking_id>> )
        => ret.kind = "Conflict"

\* C5: book_room with start >= end never returns a booking id (it is to return
\* the invalid-interval result, which is no result of the code at all), and
\* every ledger entry has start_time < end_time.
C5_InvalidIntervalRejected ==
    /\ ( ret.op = "book_room" /\ ~TimeLess(ret.start_time, ret.end_time) )
       => ret.kind # "Booked"
    /\ \A b \in LedgerEntries : TimeLess(b.start_time, b.end_time)

\* C6: get_available_rooms(s,e) leaves out exactly the rooms with a stored
\* interval [bs,be) such that s < be and bs < e (so touching windows and rooms
\* without intervals are returned); R101 is left out for 09:00-10:00 and
\* returned for 10:30-11:00; book_room refuses exactly on the same test.
C6_AvailabilityIsOverlapTest ==
    /\ (ret.op = "get_available_rooms" /\ ret.kind = "List") =>
          /\ \A r \in 1..Len(roomsFile) :
                roomsFile[r].room_id \notin Range(ret.out)
                <=> StoredOverlap(roomsFile[r].bookings, ret.start_time, ret.end_time)
          /\ \A s \in GridTimes, e \in GridTimes :
                LET out == Range(AvailableRooms(roomsFile, s, e))
                IN {roomsFile[r].room_id : r \in 1..Len(roomsFile)} \ out
                   = {roomsFile[r].room_id : r \in
                         {x \in 1..Len(roomsFile) :
                             StoredOverlap(roomsFile[x].bookings, s, e)}}
          /\ "R101" \notin Range(AvailableRooms(roomsFile, T(9, 0), T(10, 0)))
          /\ "R101" \in Range(AvailableRooms(roomsFile, T(10, 30), T(11, 0)))
    /\ (ret.op = "book_room" /\ ret.kind \in {"Conflict", "Booked"}) =>
          ( ret.kind = "Conflict"
            <=> StoredOverlap(RoomOf(roomsFile, ret.room_id).bookings,
                              ret.start_time, ret.end_time) )

\* the query 10:30-11:00 returned R101 (its interval ends at 10:30), R102 (its
\* interval starts at 11:00) and the empty R105, and left out R104
C6_Witness ==
    /\ ret.op = "get_available_rooms" /\ ret.kind = "List"
    /\ ret.start_time = T(10, 30) /\ ret.end_time = T(11, 0)
    /\ {"R101", "R102", "R105"} \subseteq Range(ret.out)
    /\ "R104" \notin Range(ret.out)

\* C7: whenever both files exist, every catalog interval has exactly one
\* ledger entry with its room and times, and every ledger entry has exactly
\* one such catalog interval.
C7_CatalogMatchesLedger ==
    (roomsFile # NoFile /\ bookingsFile # NoFile) =>
        LET Matches(b, r, k) ==
                /\ b.room_id = roomsFile[r].room_id
                /\ b.start_time = roomsFile[r].bookings[k][1]
                /\ b.end_time = roomsFile[r].bookings[k][2]
        IN /\ \A r \in 1..Len(roomsFile) :
                \A k \in 1..Len(roomsFile[r].bookings) :
                    Cardinality({i \in 1..Len(bookingsFile) :
                                    Matches(bookingsFile[i], r, k)}) = 1
           /\ \A i \in 1..Len(bookingsFile) :
                Cardinality({rk \in {<<r, k>> : r \in 1..Len(roomsFile), k \in 1..2} :
                                /\ rk[2] <= Len(roomsFile[rk[1]].bookings)
                                /\ Matches(bookingsFile[i], rk[1], rk[2])}) = 1

C9_ConflictChangesNothing ==
    [][ (ret'.op = "book_room" /\ ret'.kind = "Conflict")
        => (bookingsFile' = bookingsFile /\ roomsFile' = roomsFile) ]_vars

\* book_room has just answered conflict for R104 while the ledger holds a booking
C9_Witness ==
    /\ ret.op = "book_room" /\ ret.kind = "Conflict" /\ ret.room_id = "R104"
    /\ StoredOverlap(RoomOf(roomsFile, "R104").bookings, ret.start_time, ret.end_time)
    /\ LedgerEntries # {}

----------------------------------------------------------------------------
(* Properties of ConcSpec *)

\* caller p has returned from book_room with the given result
Returned(p, kind) ==
    pc[p] = "done" /\ loc[p].op = "book_room" /\ loc[p].kind = kind

\* C2: when two callers have both finished book_room for the same catalog room
\* with valid, overlapping windows that the seed leaves free, exactly one of
\* them got a booking id and the other the conflict result, and no two ledger
\* entries of one room overlap.
C2_OneConcurrentWinner ==
    /\ \A p \in Procs, q \in Procs :
          ( /\ p # q
            /\ \E kp \in {"Booked", "Conflict"} : Returned(p, kp)
            /\ \E kq \in {"Booked", "Conflict"} : Returned(q, kq)
            /\ loc[p].room_id = loc[q].room_id
            /\ TimeLess(loc[p].start_time, loc[p].end_time)
            /\ TimeLess(loc[q].start_time, loc[q].end_time)
            /\ Overlaps(loc[p].start_time, loc[p].end_time,
                        loc[q].start_time, loc[q].end_time)
            /\ \A x \in {p, q} :
                  ~StoredOverlap(RoomOf(initialize_rooms_data, loc[x].room_id).bookings,
                                 loc[x].start_time, loc[x].end_time) )
          => {loc[p].kind, loc[q].kind} = {"Booked", "Conflict"}
    /\ \A a \in LedgerEntries, b \in LedgerEntries :
          (a # b /\ a.room_id = b.room_id)
          => ~Overlaps(a.start_time, a.end_time, b.start_time, b.end_time)

\* C10: the entry of every book_room call that has returned a booking id is in
\* the ledger file, with the fields the call gave it.
C10_ReturnedEntryStays ==
    \A p \in Procs :
        Returned(p, "Booked") => loc[p].booking \in LedgerEntries

----------------------------------------------------------------------------
(* Properties of Spec, continued *)

\* C11: check(conditions) returns 1 exactly when some ledger entry satisfies
\* every condition, and 0 otherwise: 0 on an empty ledger, and on an empty
\* condition list 1 exactly when the ledger is not empty. The call leaves the
\* ledger entries and the catalog a reader sees as they were.
C11_CheckFindsMatchingEntry ==
    /\ [](ret.op = "check" =>
            /\ ret.out \in {<<0>>, <<1>>}
            /\ ret.out = <<1>>
               <=> \E b \in LedgerEntries :
                      \A c \in Range(ret.conditions) : CondHolds(c, b)
            /\ LedgerEntries = {} => ret.out = <<0>>
            /\ ret.conditions = << >> => (ret.out = <<1>> <=> LedgerEntries # {}))
    /\ [][ ret'.op = "check"
           => /\ load_bookings(bookingsFile') = load_bookings(bookingsFile)
              /\ load_rooms_data(roomsFile').rooms = load_rooms_data(roomsFile).rooms
         ]_vars

\* check answered 0 for two conditions of which the entries satisfy only one
C11_Witness ==
    /\ ret.op = "check" /\ ret.out = <<0>>
    /\ ret.conditions = <<"room_id == R101", "user_name == alice">>
    /\ Cardinality(LedgerEntries) = 2
    /\ \A b \in LedgerEntries : CondHolds("room_id == R101", b)

\* the start times of the seed that are no full hour, with the grid
StatusTimes == GridTimes \cup {T(9, 30), T(13, 30), T(15, 30)}

\* `sel` holds exactly the intervals of `bks` that start later than as_of, in
\* the order of `bks`
IsLaterPart(sel, bks, as_of) ==
    LET later == {k \in 1..Len(bks) : strptime(bks[k][1]) > strptime(as_of)}
        Nth(j) == CHOOSE k \in later : Cardinality({m \in later : m < k}) = j - 1
    IN /\ Len(sel) = Cardinality(later)
       /\ \A j \in 1..Len(sel) : sel[j] = bks[Nth(j)]

\* C12: get_all_rooms_status(as_of) returns one entry per catalog room, in
\* which are exactly the room's stored intervals that start strictly later
\* than as_of, in stored order; the call removes nothing from the catalog.
C12_StatusIsFutureBookings ==
    /\ []((ret.op = "get_all_rooms_status" /\ ret.kind = "Status") =>
            /\ Len(ret.out) = Len(roomsFile)
            /\ \A r \in 1..Len(roomsFile) :
                  /\ ret.out[r].room_id = roomsFile[r].room_id
                  /\ IsLaterPart(ret.out[r].bookings, roomsFile[r].bookings,
                                 ret.start_time)
                  /\ \A t \in StatusTimes :
                        IsLaterPart(future_bookings(roomsFile[r].bookings, t),
                                    roomsFile[r].bookings, t))
    /\ [][ ret'.op = "get_all_rooms_status"
           => load_rooms_data(roomsFile').rooms = load_rooms_data(roomsFile).rooms
         ]_vars

\* the status as of 11:00 keeps R101's 14:00 interval, drops its 09:00 one and
\* leaves out the R102 interval that starts at 11:00
C12_Witness ==
    /\ ret.op = "get_all_rooms_status" /\ ret.kind = "Status"
    /\ ret.start_time = T(11, 0)
    /\ ret.out[1].bookings = << <<T(14, 0), T(15, 0)>> >>
    /\ ret.out[2].room_id = "R102" /\ ret.out[2].bookings = << >>
    /\ Len(roomsFile[1].bookings) = 2

----------------------------------------------------------------------------
(* Properties of ConcSpec, continued *)

\* C13: along the insertion order of the ledger file the created_at values
\* never decrease. Stated for the pairs of entries that are bookings in their
\* own right: valid windows that do not overlap on one room.
C13_CreatedAtNonDecreasing ==
    bookingsFile # NoFile =>
        \A i, j \in 1..Len(bookingsFile) :
            LET a == bookingsFile[i]
                b == bookingsFile[j]
            IN ( /\ i < j
                 /\ TimeLess(a.start_time, a.end_time)
                 /\ TimeLess(b.start_time, b.end_time)
                 /\ ~( /\ a.room_id = b.room_id
                       /\ Overlaps(a.start_time, a.end_time,
                                   b.start_time, b.end_time) ) )
               => a.created_at <= b.created_at

----------------------------------------------------------------------------
(* Properties of Spec: first access *)

\* C14: after any call of a catalog-reading operation the catalog file holds
\* the ten-room seed, and the call has completed with the result the same call
\* gives on the catalog file it leaves behind (also when it had to create it).
C14_FirstAccessSameResult ==
    ret.op \in {"get_available_rooms", "get_all_rooms_status", "get_room_info",
                "book_room"} =>
        /\ roomsFile # NoFile /\ Len(roomsFile) = 10
        /\ ret.op = "get_available_rooms" =>
              /\ ret.kind = "List"
              /\ ret.out = AvailableRooms(roomsFile, ret.start_time, ret.end_time)
        /\ ret.op = "get_all_rooms_status" =>
              /\ ret.kind = "Status"
              /\ \A r \in 1..Len(roomsFile) :
                    ret.out[r].bookings
                    = future_bookings(roomsFile[r].bookings, ret.start_time)
        /\ ret.op = "get_room_info" =>
              ret.kind = IF ret.room_id \in RoomIds(roomsFile) THEN "Info"
                         ELSE "NotFound"
        /\ ret.op = "book_room" =>
              ret.kind = book_room_kind(load_rooms_data(roomsFile), ret.room_id,
                                        ret.start_time, ret.end_time)

----------------------------------------------------------------------------
(* Properties of Spec: the effect of a successful booking *)

\* C15: a book_room call that returns a booking id leaves the ledger with the
\* entries it had, unchanged, and one more: the new entry is stored under the
\* returned id, which was no key of the ledger before, and carries the call's
\* room_id, user_name, start_time and end_time; no room's capacity or
\* facilities change.
C15_BookingAddsOneEntry ==
    [][ (ret'.op = "book_room" /\ ret'.kind = "Booked") =>
          LET before == load_bookings(bookingsFile)
              after == load_bookings(bookingsFile')
              new == after[Len(after)]
          IN /\ bookingsFile' # NoFile
             /\ Len(after) = Len(before) + 1
             /\ \A i \in 1..Len(before) : after[i] = before[i]
             /\ new.booking_id \notin BookingIds(before)
             /\ ret'.out = <<new.booking_id>>
             /\ new.room_id = ret'.room_id
             /\ new.user_name = ret'.user_name
             /\ new.start_time = ret'.start_time
             /\ new.end_time = ret'.end_time
             /\ roomsFile # NoFile /\ Len(roomsFile') = Len(roomsFile)
             /\ \A r \in 1..Len(roomsFile) :
                   /\ roomsFile'[r].room_id = roomsFile[r].room_id
                   /\ roomsFile'[r].capacity = roomsFile[r].capacity
                   /\ roomsFile'[r].facilities = roomsFile[r].facilities
      ]_vars

\* bob's booking has just been added behind alice's
C15_Witness ==
    /\ ret.op = "book_room" /\ ret.kind = "Booked" /\ ret.user_name = "bob"
    /\ bookingsFile # NoFile /\ Len(bookingsFile) = 2
    /\ bookingsFile[1].user_name = "alice"
    /\ bookingsFile[2].booking_id = ret.out[1]

====
